---- MODULE Spec2Model ----
(***************************************************************************)
(* TXT::read of dns/src/record/txt.rs: the decoder of a DNS TXT record's   *)
(* RDATA.  A call reads length-prefixed segments from a cursor over a byte *)
(* buffer until a segment shorter than 255 bytes, then compares the        *)
(* running total with the declared RDATA length.                           *)
(*                                                                         *)
(* A state is one call in progress: its arguments (len, the cursor c/pos), *)
(* its locals (buf, total_len), its position in the code (pc) and what it  *)
(* returned (result).  Strings are sequences of Unicode scalar values.     *)
(* SpecPair follows the call by a second one (twin) on a related buffer.   *)
(*                                                                         *)
(* A buffer of 64 KiB is needed to take total_len to the end of u16, so    *)
(* byte sequences (the cursor's buffer, buf) are kept packed: a sequence   *)
(* of blocks, each a byte string and the number of times it is repeated.   *)
(* Size, ByteAt and Unpack say which bytes a packed sequence holds.        *)
(***************************************************************************)
EXTENDS Integers, Sequences, FiniteSets

(***************************************************************************)
(* Packed byte sequences.                                                  *)
(***************************************************************************)
\* The bytes s, k times over.
Repeat(k, s) == IF k = 0 \/ s = <<>> THEN <<>> ELSE <<[times |-> k, block |-> s]>>

Pack(s) == Repeat(1, s)

\* Number of bytes held.
RECURSIVE Size(_)
Size(v) ==
    IF v = <<>> THEN 0
    ELSE Head(v).times * Len(Head(v).block) + Size(Tail(v))

\* The byte at offset p, counted from 0.
RECURSIVE ByteAt(_, _)
ByteAt(v, p) ==
    LET h  == Head(v)
        sz == h.times * Len(h.block)
    IN  IF p < sz THEN h.block[(p % Len(h.block)) + 1]
        ELSE ByteAt(Tail(v), p - sz)

\* The n bytes from offset p on, as a plain sequence: a part of one block
\* where they lie in one, byte by byte otherwise (\o makes it a tuple).
RECURSIVE Slice(_, _, _)
Slice(v, p, n) ==
    IF n = 0 THEN <<>>
    ELSE LET h == Head(v)
             w == Len(h.block)
             o == p % w
         IN  IF p >= h.times * w THEN Slice(Tail(v), p - h.times * w, n)
             ELSE IF o + n <= w THEN SubSeq(h.block, o + 1, o + n)
             ELSE <<>> \o [i \in 1..n |-> ByteAt(v, p + i - 1)]

\* All the bytes, as a plain sequence.
Unpack(v) == Slice(v, 0, Size(v))

\* The first n bytes.
RECURSIVE Take(_, _)
Take(v, n) ==
    IF v = <<>> \/ n <= 0 THEN <<>>
    ELSE LET h  == Head(v)
             w  == Len(h.block)
         IN  IF n >= h.times * w THEN <<h>> \o Take(Tail(v), n - h.times * w)
             ELSE Repeat(n \div w, h.block) \o Pack(SubSeq(h.block, 1, n % w))

\* v with the bytes s added at the end (Vec::push, once for each byte).
Extend(v, s) ==
    IF s = <<>> THEN v
    ELSE IF v # <<>> /\ v[Len(v)].block = s
    THEN [v EXCEPT ![Len(v)].times = @ + 1]
    ELSE Append(v, [times |-> 1, block |-> s])

(***************************************************************************)
(* Program constants.                                                      *)
(***************************************************************************)
\* `next_len < 255`: the length byte that means "another segment follows".
ContinueLen == 255
\* u16: the width of len and total_len (2^16).
U16Modulus == 65536
\* U+FFFD, what from_utf8_lossy puts in place of an invalid sequence.
REPLACEMENT_CHARACTER == 65533

(***************************************************************************)
(* Bounds of the model.                                                    *)
(***************************************************************************)
\* Most 255-byte segments chained in front of the strings, short inputs.
MaxChain == 1
\* Longest first content string.
MaxStrLen == 2
\* Most content strings framed one after another.
MaxStrings == 2
\* Declared lengths 0..MaxDeclared are tried whatever the buffer holds.
MaxDeclared == 3
\* Declared lengths within MaxSkew of the buffer's size are tried.
MaxSkew == 1
\* Most bytes cut off the end of the framed buffer.
MaxCut == 1

(***************************************************************************)
(* Inputs: wire buffers, framed the way the tests' buffers are.            *)
(***************************************************************************)
\* Content bytes: 'A', the two bytes of U+00E9 (0xC3 0xA9), and 0x01, which
\* is also a plausible length byte.
ContentBytes == {1, 65, 195, 169}

\* Byte strings over S of length at most n.
StringsUpTo(S, n) == UNION {[1..m -> S] : m \in 0..n}

\* One character-string on the wire: its length byte, then its bytes.
Segment(s) == <<Len(s)>> \o s

\* The strings s[1..], each framed as one segment, in order.
RECURSIVE Frame(_)
Frame(ss) == IF ss = <<>> THEN <<>> ELSE Segment(Head(ss)) \o Frame(Tail(ss))

\* The content of the strings, length bytes left out.
RECURSIVE Concat(_)
Concat(ss) == IF ss = <<>> THEN <<>> ELSE Head(ss) \o Concat(Tail(ss))

\* A full segment's content: 255 bytes `fill`.
FullContent(fill) == <<>> \o [i \in 1..ContinueLen |-> fill]

\* k full segments: length byte 255 and 255 bytes `fill` each.
Chain(k, fill) == Repeat(k, Segment(FullContent(fill)))

\* The content bytes of Chain(k, fill).
ChainContent(k, fill) == <<>> \o [i \in 1..(k * ContinueLen) |-> fill]

\* The buffer of an input: the chain, the framed strings, less `cut` bytes.
Wire(in) ==
    LET whole == Chain(in.chain, in.fill) \o Pack(Frame(in.strings))
    IN  Take(whole, Size(whole) - in.cut)

\* Lists of at most n strings; the strings after the first are short.
RECURSIVE TailLists(_)
TailLists(n) ==
    IF n = 0 THEN {<<>>}
    ELSE {<<>>} \cup {<<s>> \o t : s \in {<<>>, <<65>>}, t \in TailLists(n - 1)}

StringLists ==
    {<<>>} \cup {<<s>> \o t : s \in StringsUpTo(ContentBytes, MaxStrLen),
                              t \in TailLists(MaxStrings - 1)}

\* Number of 255-byte segments after which total_len passes 2^16.
WrapChain == U16Modulus \div (ContinueLen + 1)

ShortInputs ==
    {in \in [chain : 0..MaxChain, fill : {65}, strings : StringLists,
             cut : 0..MaxCut] :
        in.cut <= Size(Chain(in.chain, in.fill)) + Len(Frame(in.strings))}

\* Buffers of 64 KiB and more, where total_len reaches the end of u16.
LongInputs ==
    [chain : {WrapChain - 1, WrapChain}, fill : {65},
     strings : {<<>>, << <<>> >>}, cut : {0, 1}]

\* The declared lengths tried with buffer b.
DeclaredLens(b) ==
    (0..MaxDeclared)
    \cup {(Size(b) + U16Modulus + d) % U16Modulus : d \in (-MaxSkew)..MaxSkew}

\* The declared lengths tried with a long buffer.
LongDeclaredLens(b) == {0, 1, Size(b) % U16Modulus}

(***************************************************************************)
(* String::from_utf8_lossy: UTF-8 decoding, one U+FFFD for each maximal    *)
(* invalid part.                                                           *)
(***************************************************************************)
\* Bytes the sequence started by lead byte b is wide; 0: b starts nothing.
Utf8Width(b) ==
    IF b < 128 THEN 1
    ELSE IF b >= 194 /\ b <= 223 THEN 2
    ELSE IF b >= 224 /\ b <= 239 THEN 3
    ELSE IF b >= 240 /\ b <= 244 THEN 4
    ELSE 0

IsContinuation(b) == b >= 128 /\ b <= 191

\* Whether x may follow lead byte b as the second byte.
SecondByteOk(b, x) ==
    IF b = 224 THEN x >= 160 /\ x <= 191
    ELSE IF b = 237 THEN x >= 128 /\ x <= 159
    ELSE IF b = 240 THEN x >= 144 /\ x <= 191
    ELSE IF b = 244 THEN x >= 128 /\ x <= 143
    ELSE IsContinuation(x)

\* Length of the longest valid prefix of a sequence that starts at v[i].
ValidUpTo(v, i) ==
    LET w == Utf8Width(v[i])
        n == Len(v)
    IN  IF w <= 1 THEN 1
        ELSE IF i + 1 > n \/ ~SecondByteOk(v[i], v[i + 1]) THEN 1
        ELSE IF w = 2 THEN 2
        ELSE IF i + 2 > n \/ ~IsContinuation(v[i + 2]) THEN 2
        ELSE IF w = 3 THEN 3
        ELSE IF i + 3 > n \/ ~IsContinuation(v[i + 3]) THEN 3
        ELSE 4

\* v[i] starts a chunk unless a lead byte up to three places back takes it.
StartsChunk(v, i) ==
    \A d \in 1..3 :
        ~(i - d >= 1 /\ Utf8Width(v[i - d]) >= 2 /\ ValidUpTo(v, i - d) > d)

\* The scalar value of the chunk at v[i], U+FFFD when it is not complete.
ChunkChar(v, i) ==
    LET w == Utf8Width(v[i])
    IN  IF w = 0 \/ ValidUpTo(v, i) # w THEN REPLACEMENT_CHARACTER
        ELSE IF w = 1 THEN v[i]
        ELSE IF w = 2 THEN (v[i] - 192) * 64 + (v[i + 1] - 128)
        ELSE IF w = 3 THEN (v[i] - 224) * 4096 + (v[i + 1] - 128) * 64
                           + (v[i + 2] - 128)
        ELSE (v[i] - 240) * 262144 + (v[i + 1] - 128) * 4096
             + (v[i + 2] - 128) * 64 + (v[i + 3] - 128)

from_utf8_lossy(v) ==
    LET starts == SelectSeq([i \in 1..Len(v) |-> i], LAMBDA i : StartsChunk(v, i))
    IN  <<>> \o [j \in 1..Len(starts) |-> ChunkChar(v, starts[j])]

(***************************************************************************)
(* The call.                                                               *)
(***************************************************************************)
VARIABLES
    input,            \* what the buffer was framed from (history, never read)
    overflow_checks,  \* the build: TRUE when u16 overflow panics
    len,              \* argument: the declared RDATA length, a u16
    c,                \* the cursor's buffer, packed
    pos,              \* the cursor's position: bytes consumed so far
    buf,              \* the bytes pushed so far, packed
    next_len,         \* this pass's length byte, -1 when none was read
    total_len,        \* the running total, a u16
    pc,               \* "loop", "validate" or "done"
    result,           \* what the call returned
    twin              \* a second call, made after the first has ended

vars ==
    <<input, overflow_checks, len, c, pos, buf, next_len, total_len, pc, result,
      twin>>

NoResult == [kind |-> "none", message |-> <<>>, expected |-> 0, got |-> 0]
\* Ok(Self { message })
Ok(m) == [kind |-> "Ok", message |-> m, expected |-> 0, got |-> 0]
\* WireError::IO, what `?` makes of the cursor's error
IO == [kind |-> "IO", message |-> <<>>, expected |-> 0, got |-> 0]
\* WireError::WrongLabelLength { expected, got }
WrongLabelLength(e, g) ==
    [kind |-> "WrongLabelLength", message |-> <<>>, expected |-> e, got |-> g]
\* The thread panicked ("attempt to add with overflow"): nothing is returned.
Panic == [kind |-> "panic", message |-> <<>>, expected |-> 0, got |-> 0]

\* c.read_u8(): the byte at the cursor, or no byte at the end of the buffer.
read_u8(data, p) ==
    IF p < Size(data)
    THEN [ok |-> TRUE, val |-> ByteAt(data, p), pos |-> p + 1]
    ELSE [ok |-> FALSE, val |-> 0, pos |-> p]

\* ReadContent with the segment's length byte pushed as well.
ReadContentWithPrefix(data, p, n) ==
    LET avail == IF Size(data) - p < n THEN Size(data) - p ELSE n
    IN  [ok |-> avail = n, bytes |-> Slice(data, p - 1, avail + 1),
         pos |-> p + avail]

\* for _ in 0 .. next_len { buf.push(c.read_u8()?) }: the bytes pushed, the
\* cursor's position after, and whether every read succeeded.
ReadContent(data, p, n) ==
    LET avail == IF Size(data) - p < n THEN Size(data) - p ELSE n
    IN  [ok |-> avail = n, bytes |-> Slice(data, p, avail),
         pos |-> p + avail]

\* AddLength with the length byte itself not counted.
AddLengthNoPrefix(total, n) == total + n

\* total_len += u16::from(next_len) + 1, before the width is applied.
AddLength(total, n) == total + n + 1

\* The loop ends after a segment shorter than 255 bytes.
LastSegment(n) == n < ContinueLen

\* One pass of the loop: a length byte, its content, break or go round again.
\* The u16 addition panics when the sum does not fit and the build checks
\* overflow (the debug profile, or overflow-checks = true); it wraps otherwise.
LoopPass(data, p, acc, total, checks) ==
    LET lb  == read_u8(data, p)
        sum == AddLength(total, lb.val)
        ct  == ReadContent(data, lb.pos, lb.val)
    IN  IF ~lb.ok
        THEN [pc |-> "done", pos |-> lb.pos, buf |-> acc, next_len |-> -1,
              total_len |-> total, result |-> IO]
        ELSE IF sum >= U16Modulus /\ checks
        THEN [pc |-> "done", pos |-> lb.pos, buf |-> acc, next_len |-> lb.val,
              total_len |-> total, result |-> Panic]
        ELSE IF ~ct.ok
        THEN [pc |-> "done", pos |-> ct.pos, buf |-> Extend(acc, ct.bytes),
              next_len |-> lb.val, total_len |-> sum % U16Modulus,
              result |-> IO]
        ELSE [pc |-> IF LastSegment(lb.val) THEN "validate" ELSE "loop",
              pos |-> ct.pos, buf |-> Extend(acc, ct.bytes), next_len |-> lb.val,
              total_len |-> sum % U16Modulus, result |-> NoResult]

\* LengthMatches with a declared length of 0 accepted as it is.
LengthMatchesOrZero(declared, total) == declared = total \/ declared = 0

\* Whether the declared length is accepted.
LengthMatches(declared, total) == declared = total

\* After the loop: the message, or the mismatch.
Outcome(declared, total, acc) ==
    LET message == from_utf8_lossy(Unpack(acc))
    IN  IF LengthMatches(declared, total) THEN Ok(message)
        ELSE WrongLabelLength(declared, total)

\* The second call before it starts, and when there is none.
TwinCall(how, b) ==
    [how |-> how, c |-> b, pos |-> 0, buf |-> <<>>, next_len |-> -1,
     total_len |-> 0, pc |-> "loop", result |-> NoResult]

NoTwin == [TwinCall("none", <<>>) EXCEPT !.pc = "off"]

Start(in, b) ==
    /\ input = in
    /\ c = b
    /\ pos = 0
    /\ buf = <<>>
    /\ next_len = -1
    /\ total_len = 0
    /\ pc = "loop"
    /\ result = NoResult

\* A call on a short buffer.
ShortCall ==
    \E in \in ShortInputs :
        /\ Start(in, Wire(in))
        /\ len \in DeclaredLens(Wire(in))

\* A call on a buffer of 64 KiB or more.
LongCall ==
    \E in \in LongInputs :
        /\ Start(in, Wire(in))
        /\ len \in LongDeclaredLens(Wire(in))

Init ==
    /\ overflow_checks \in BOOLEAN
    /\ twin = NoTwin
    /\ (ShortCall \/ LongCall)

ReadSegment ==
    /\ pc = "loop"
    /\ LET r == LoopPass(c, pos, buf, total_len, overflow_checks)
       IN  /\ pc' = r.pc
           /\ pos' = r.pos
           /\ buf' = r.buf
           /\ next_len' = r.next_len
           /\ total_len' = r.total_len
           /\ result' = r.result
    /\ UNCHANGED <<input, overflow_checks, len, c, twin>>

Validate ==
    /\ pc = "validate"
    /\ result' = Outcome(len, total_len, buf)
    /\ pc' = "done"
    /\ UNCHANGED <<input, overflow_checks, len, c, pos, buf, next_len, total_len,
                   twin>>

Next == ReadSegment \/ Validate

Spec == Init /\ [][Next]_vars

\* The calls on short buffers; the call always gets to run, being
\* straight-line code on one thread.
InitShort ==
    /\ overflow_checks \in BOOLEAN
    /\ twin = NoTwin
    /\ ShortCall

SpecLive == InitShort /\ [][Next]_vars /\ WF_vars(Next)

(***************************************************************************)
(* Two calls, one after the other, with the same declared length in the    *)
(* same build: the second on a buffer that differs from the first only in  *)
(* its content bytes, or that ends where the first call's record ends.     *)
(***************************************************************************)
\* The first segment shorter than 255 bytes is whole in the buffer.
WellFormed(in) ==
    /\ in.strings # <<>>
    /\ in.cut <= Len(Frame(Tail(in.strings)))

\* Bytes the chain and the first string's segment occupy.
Occupies(in) == in.chain * (ContinueLen + 1) + Len(Head(in.strings)) + 1

\* The content bytes of the chain and the first string.
Content(in) == ChainContent(in.chain, in.fill) \o Head(in.strings)

\* Content bytes replaced one for one; 255 is no text and a length byte.
Recodings ==
    { [b \in ContentBytes |->
          IF b = 1 THEN 65 ELSE IF b = 65 THEN 195 ELSE IF b = 195 THEN 169 ELSE 1],
      [b \in ContentBytes |-> ContinueLen] }

Recode(in, r) ==
    [in EXCEPT !.fill = r[in.fill],
               !.strings = [i \in 1..Len(in.strings) |->
                              [j \in 1..Len(in.strings[i]) |-> r[in.strings[i][j]]]]]

Twins(in) ==
    {TwinCall("content", Wire(Recode(in, r))) : r \in Recodings}
    \cup (IF WellFormed(in)
          THEN {TwinCall("ends", Take(Wire(in), Occupies(in)))}
          ELSE {})

LongPairInputs ==
    [chain : {WrapChain}, fill : {65}, strings : {<< <<>> >>}, cut : {0}]

InitPair ==
    /\ overflow_checks \in BOOLEAN
    /\ \/ \E in \in ShortInputs :
            /\ Start(in, Wire(in))
            /\ len \in DeclaredLens(Wire(in))
            /\ twin \in Twins(in)
       \/ \E in \in LongPairInputs :
            /\ Start(in, Wire(in))
            /\ len = Size(Wire(in)) % U16Modulus
            /\ twin \in Twins(in)

TwinReadSegment ==
    /\ pc = "done"
    /\ twin.pc = "loop"
    /\ LET r == LoopPass(twin.c, twin.pos, twin.buf, twin.total_len,
                         overflow_checks)
       IN  twin' = [twin EXCEPT !.pc = r.pc, !.pos = r.pos, !.buf = r.buf,
                                !.next_len = r.next_len,
                                !.total_len = r.total_len,
                                !.result = r.result]
    /\ UNCHANGED <<input, overflow_checks, len, c, pos, buf, next_len,
                   total_len, pc, result>>

TwinValidate ==
    /\ pc = "done"
    /\ twin.pc = "validate"
    /\ twin' = [twin EXCEPT !.pc = "done",
                            !.result = Outcome(len, twin.total_len, twin.buf)]
    /\ UNCHANGED <<input, overflow_checks, len, c, pos, buf, next_len,
                   total_len, pc, result>>

NextPair == ReadSegment \/ Validate \/ TwinReadSegment \/ TwinValidate

SpecPair == InitPair /\ [][NextPair]_vars

(***************************************************************************)
(* Properties.                                                             *)
(***************************************************************************)
Done == pc = "done"

BothDone == pc = "done" /\ twin.pc = "done"

\* The buffer is the framed strings and nothing else.
Framed(in) == in.chain = 0 /\ in.cut = 0

\* C1, as stated: any sequence of strings of at most 254 bytes (one or
\* more, as RDATA holds), each framed as one segment, decoded with the
\* buffer's exact size as declared length, gives the strings' content in
\* order, lossily decoded.
C1_RoundTripAnySequence ==
    (Done /\ Framed(input) /\ Len(input.strings) >= 1 /\ len = Size(c))
        => result = Ok(from_utf8_lossy(Concat(input.strings)))

\* C1, amended: one string of at most 254 bytes, framed as one segment and
\* decoded with the buffer's exact size as declared length, gives that
\* string's content, lossily decoded.
C1_RoundTripOneString ==
    (Done /\ Framed(input) /\ Len(input.strings) = 1 /\ len = Size(c))
        => result = Ok(from_utf8_lossy(Head(input.strings)))

\* C1 witness: 0xC3 0xA9 framed as [2, 0xC3, 0xA9], declared 3, gives U+00E9.
C1_Witness ==
    /\ Done
    /\ Framed(input)
    /\ input.strings = << <<195, 169>> >>
    /\ len = 3
    /\ result = Ok(<<233>>)

\* C2: a whole segment sequence decoded with a declared length other than
\* the bytes it occupies gives WrongLabelLength with the declared length
\* and the bytes occupied, never a value.
C2_MismatchReported ==
    (Done /\ WellFormed(input) /\ len # Occupies(input))
        => result = WrongLabelLength(len, Occupies(input))

\* C3: a successful call has consumed exactly the declared length.
C3_ConsumedIsDeclared ==
    (Done /\ result.kind = "Ok") => pos = len

\* C4: a buffer that ends before a length byte or inside a segment's
\* content gives the IO error, whatever the declared length.
C4_InsufficientInput ==
    (Done /\ ~WellFormed(input)) => result = IO

\* C5: a pass that read length byte 255 ends the call only by the IO
\* error, and a buffer that ends right after a 255-byte segment gives the
\* IO error.
C5_Continuation ==
    Done =>
        /\ next_len = ContinueLen => result = IO
        /\ (input.chain >= 1 /\ input.strings = <<>> /\ input.cut = 0)
               => result = IO

\* C6: k segments of 255 bytes and one shorter segment of n bytes, decoded
\* with declared length 256 k + n + 1, give the content of all k + 1
\* segments in wire order, length bytes left out.
C6_Reassembly ==
    (Done /\ Len(input.strings) = 1 /\ input.cut = 0
          /\ len = Occupies(input))
        => result = Ok(from_utf8_lossy(Content(input)))

\* C6 witness: 255 'A' and a 2-byte segment 'A' 'A', declared 259, give
\* 257 'A'.
C6_Witness ==
    /\ Done
    /\ input.chain = 1
    /\ input.strings = << <<65, 65>> >>
    /\ input.cut = 0
    /\ len = 259
    /\ result = Ok([i \in 1..257 |-> 65])

\* C7: the empty buffer with declared length 0 gives the IO error; no call
\* with declared length 0 succeeds; and the empty message is returned
\* exactly when the first byte is a length byte 0 and the declared length
\* is 1.
C7_ZeroNotSpecial ==
    Done =>
        /\ (c = <<>> /\ len = 0) => result = IO
        /\ len = 0 => result.kind # "Ok"
        /\ result = Ok(<<>>) <=> (Size(c) >= 1 /\ ByteAt(c, 0) = 0 /\ len = 1)

\* C7 witness: the empty buffer, declared length 0, ended in the IO error.
C7_Witness == Done /\ c = <<>> /\ len = 0 /\ result = IO

\* C8: with bytes after the first segment shorter than 255, the call stops
\* right after that segment and returns what it returns on the buffer that
\* ends there.
C8_EndOfBufferIgnored ==
    (BothDone /\ twin.how = "ends")
        => /\ pos = Occupies(input)
           /\ result = twin.result

\* C9: every call ends with a value, the IO error or WrongLabelLength.
C9_OneOfThree ==
    Done => result.kind \in {"Ok", "IO", "WrongLabelLength"}

\* C9: every call ends (checked under SpecLive, on the short buffers).
C9_Terminates == <>Done

\* C9: a pass that got its length byte moves the cursor forward, and the
\* cursor never passes the end of the buffer: the loop is bounded by the
\* buffer's size.
C9_PassConsumes ==
    [][/\ (pc = "loop" /\ next_len' # -1) => pos' > pos
       /\ pos' <= Size(c)]_vars

\* C9: the loop goes on only after a 255-byte segment, and ends at the first
\* shorter segment or failed read.
C9_LoopExit ==
    [][pc = "loop" => (pc' = "loop" <=> (result' = NoResult /\ next_len' = ContinueLen))]_vars

\* C10: two buffers with the same length bytes in the same places, decoded
\* with the same declared length, both succeed, both give the IO error, or
\* both give the same WrongLabelLength.
C10_ContentBlind ==
    (BothDone /\ twin.how = "content")
        => \/ result.kind = "Ok" /\ twin.result.kind = "Ok"
           \/ result = IO /\ twin.result = IO
           \/ result.kind = "WrongLabelLength" /\ twin.result = result

====
